---- MODULE Spec2Model ----
(***************************************************************************)
(* Model of tasks.py: the RobotSpareBin order robot.  One task reads the   *)
(* orders, drives the order form once per row (with a bounded submit       *)
(* retry), writes a receipt, a screenshot and a merged document per row,   *)
(* and zips the merged-document directory.                                 *)
(*                                                                         *)
(* Every call into the browser, the HTTP client, pandas or the PDF library *)
(* is an environment step: it either returns or raises.  An exception that *)
(* no try block catches ends the task.                                     *)
(***************************************************************************)
EXTENDS Integers, Sequences, FiniteSets, TLC

VARIABLES
    pc,               \* the statement of the task that runs next
    csv,              \* the remote orders.csv: rows of (order number, head code)
    table,            \* the model-info table shown by the site
    orders_df,        \* orders_df of order_robots_from_RobotSpareBin
    model_parts_dict, \* model_parts_dict of order_robots_from_RobotSpareBin
    i,                \* position of the for loop in orders_df (0 before the loop)
    success,          \* local of submit_until_success
    count,            \* local of submit_until_success
    clicks,           \* clicks on the submit button done by the current call
    checks,           \* results of check_order_success in the current call
    outcomes,         \* how submit_until_success ended, per processed row
    warning,          \* logger.warning of the last modal call or check, with its cause
    receipts,         \* files of RECEIPTS_PATH: name -> content
    images,           \* files of IMAGES_PATH: name -> content
    pdfs,             \* files of PDFS_PATH: name -> content
    zip,              \* robot_orders_receipts.zip: <<its entries>>, or NoFile
    failed,           \* the step that raised and the exception, or NoError
    log               \* the steps that returned, in order, with the row index

vars == <<pc, csv, table, orders_df, model_parts_dict, i, success, count,
          clicks, checks, outcomes, warning, receipts, images, pdfs,
          zip, failed, log>>

----------------------------------------------------------------------------
(* Bounds of the explored inputs *)

MaxRows == 2
MaxPartNumber == 2
MaxStale == 1

(* Program constant *)

MAX_SUBMISSION_ATTEMPTS == 5

----------------------------------------------------------------------------
(* Values *)

NaN == <<"NaN", 0>>
NoFile == <<>>
NoError == <<"", "">>
NoWarning == <<"", "">>
Stale == <<"stale", 0>>
RunContent(k) == <<"run", k>>
Merged(receipt, screenshot) == <<"merged", receipt, screenshot>>

PartNumber(p) == <<"part", p>>
ModelName(p) == <<"model", p>>

OrderRow == [number : 1..MaxRows,
             head : {PartNumber(p) : p \in 1..MaxPartNumber}]

RECURSIVE SeqsUpTo(_, _)
SeqsUpTo(S, n) ==
    IF n = 0 THEN {<<>>}
    ELSE LET shorter == SeqsUpTo(S, n - 1)
         IN  shorter \cup {Append(s, x) : s \in {t \in shorter : Len(t) = n - 1}, x \in S}

Range(s) == {s[k] : k \in DOMAIN s}

(* An order number is only ever pasted into a file name, so only which rows
   share a number matters: the files explored number their orders in order of
   first appearance (1, then at most one more than the largest so far). *)
FirstAppearance(rows) ==
    \A k \in DOMAIN rows :
        \E m \in 0..(k - 1) :
            /\ rows[k].number <= m + 1
            /\ (m > 0 => \E j \in 1..(k - 1) : rows[j].number = m)
            /\ \A j \in 1..(k - 1) : rows[j].number <= m

OrdersFiles == {rows \in SeqsUpTo(OrderRow, MaxRows) : FirstAppearance(rows)}

----------------------------------------------------------------------------
(* File names and directories *)

ReceiptPath(order_number) == <<"receipt_", order_number, ".pdf">>
ScreenshotPath(order_number) == <<"screenshot_", order_number, ".png">>
MergedPathFixed(order_number) == <<"receipt_with_screenshot_", 1, ".pdf">>

MergedPath(order_number) == <<"receipt_with_screenshot_", order_number, ".pdf">>

WriteKeep(dir, path, content) ==
    [p \in DOMAIN dir \cup {path} |-> IF p \in DOMAIN dir THEN dir[p] ELSE content]

Write(dir, path, content) ==
    [p \in DOMAIN dir \cup {path} |-> IF p = path THEN content ELSE dir[p]]

MakeArchive(dir) == <<DOMAIN dir>>

Entries(archive) == archive[1]

----------------------------------------------------------------------------
(* Pure parts of the task *)

MapHeadKeep(head, dict) == IF head \in DOMAIN dict THEN dict[head] ELSE head

MapHead(head, dict) == IF head \in DOMAIN dict THEN dict[head] ELSE NaN

WhileCondNoSuccess(s, c) == c <= MAX_SUBMISSION_ATTEMPTS

WhileCond(s, c) == (~s) /\ c <= MAX_SUBMISSION_ATTEMPTS

AfterSubmitStrict(s) == IF s THEN "store_receipt_as_pdf" ELSE "aborted"

AfterSubmit(s) == "store_receipt_as_pdf"

ModalCaughtTimeoutOnly(met) == met \in {"dismissed", "absent"}

ModalCaught(met) == met \in {"dismissed", "absent", "click_failed"}

SubmissionState(s, c) ==
    IF s THEN "SUCCEEDED"
    ELSE IF c > MAX_SUBMISSION_ATTEMPTS THEN "EXHAUSTED" ELSE "ATTEMPTING"

NextStepSwapped(step, idx) ==
    CASE step = "get_orders" -> "open_robot_order_website"
      [] step = "open_robot_order_website" -> "go_to_place_order_page"
      [] step = "go_to_place_order_page" -> "close_annoying_modal"
      [] step = "close_annoying_modal" ->
            IF idx = 0 THEN "get_model_parts" ELSE "fill_the_form"
      [] step = "get_model_parts" -> "map_head"
      [] step = "map_head" -> "for"
      [] step = "fill_the_form" -> "preview_order"
      [] step = "preview_order" -> "submit_until_success"
      [] step = "store_receipt_as_pdf" -> "embed_screenshot_to_receipt"
      [] step = "embed_screenshot_to_receipt" -> "screenshot_robot"
      [] step = "screenshot_robot" -> "click_order_another"
      [] step = "click_order_another" -> "for"
      [] step = "archive_receipts" -> "done"

NextStep(step, idx) ==
    CASE step = "get_orders" -> "open_robot_order_website"
      [] step = "open_robot_order_website" -> "go_to_place_order_page"
      [] step = "go_to_place_order_page" -> "close_annoying_modal"
      [] step = "close_annoying_modal" ->
            IF idx = 0 THEN "get_model_parts" ELSE "fill_the_form"
      [] step = "get_model_parts" -> "map_head"
      [] step = "map_head" -> "for"
      [] step = "fill_the_form" -> "preview_order"
      [] step = "preview_order" -> "submit_until_success"
      [] step = "store_receipt_as_pdf" -> "screenshot_robot"
      [] step = "screenshot_robot" -> "embed_screenshot_to_receipt"
      [] step = "embed_screenshot_to_receipt" -> "click_order_another"
      [] step = "click_order_another" -> "for"
      [] step = "archive_receipts" -> "done"

----------------------------------------------------------------------------
(* Control: a step returns, or raises to the top of the task *)

Returned(step) ==
    /\ pc' = NextStep(step, i)
    /\ log' = Append(log, <<step, i>>)
    /\ failed' = failed

RaiseSwallowed(step, kind) ==
    /\ pc' = NextStep(step, i)
    /\ failed' = <<step, kind>>
    /\ log' = log

Raise(step, kind) ==
    /\ pc' = "aborted"
    /\ failed' = <<step, kind>>
    /\ log' = log

Init ==
    /\ pc = "get_orders"
    /\ csv \in OrdersFiles
    /\ \E D \in SUBSET (1..MaxPartNumber) :
          table = [p \in {PartNumber(q) : q \in D} |-> ModelName(p[2])]
    /\ orders_df = <<>>
    /\ model_parts_dict = <<>>
    /\ i = 0
    /\ success = FALSE
    /\ count = 0
    /\ clicks = 0
    /\ checks = <<>>
    /\ outcomes = <<>>
    /\ warning = NoWarning
    /\ \E S \in SUBSET (1..MaxStale) :
          /\ receipts = [p \in {ReceiptPath(n) : n \in S} |-> Stale]
          /\ images = [p \in {ScreenshotPath(n) : n \in S} |-> Stale]
          /\ pdfs = [p \in {MergedPath(n) : n \in S} |-> Merged(Stale, Stale)]
    /\ zip = NoFile
    /\ failed = NoError
    /\ log = <<>>

----------------------------------------------------------------------------
(* The statements of order_robots_from_RobotSpareBin *)

GetOrders ==
    /\ pc = "get_orders"
    /\ \/ /\ orders_df' = csv
          /\ Returned("get_orders")
       \/ /\ orders_df' = orders_df
          /\ Raise("get_orders", "DownloadOrParseError")
    /\ UNCHANGED <<csv, table, model_parts_dict, i, success, count, clicks,
                   checks, outcomes, warning, receipts, images, pdfs, zip>>

OpenRobotOrderWebsite ==
    /\ pc = "open_robot_order_website"
    /\ \/ Returned("open_robot_order_website")
       \/ Raise("open_robot_order_website", "PageError")
    /\ UNCHANGED <<csv, table, orders_df, model_parts_dict, i, success, count,
                   clicks, checks, outcomes, warning, receipts, images,
                   pdfs, zip>>

GoToPlaceOrderPage ==
    /\ pc = "go_to_place_order_page"
    /\ \/ Returned("go_to_place_order_page")
       \/ Raise("go_to_place_order_page", "PageError")
    /\ UNCHANGED <<csv, table, orders_df, model_parts_dict, i, success, count,
                   clicks, checks, outcomes, warning, receipts, images,
                   pdfs, zip>>

CloseAnnoyingModal ==
    /\ pc = "close_annoying_modal"
    /\ \E met \in {"dismissed", "absent", "click_failed"} :
          /\ IF ModalCaught(met)
             THEN /\ warning' = IF met = "dismissed" THEN NoWarning
                                ELSE <<"Modal did not appear", met>>
                  /\ Returned("close_annoying_modal")
             ELSE /\ warning' = warning
                  /\ Raise("close_annoying_modal", "PageError")
    /\ UNCHANGED <<csv, table, orders_df, model_parts_dict, i, success, count,
                   clicks, checks, outcomes, receipts, images, pdfs, zip>>

GetModelParts ==
    /\ pc = "get_model_parts"
    /\ \/ /\ model_parts_dict' = table
          /\ Returned("get_model_parts")
       \/ /\ model_parts_dict' = model_parts_dict
          /\ Raise("get_model_parts", "PageError")
    /\ UNCHANGED <<csv, table, orders_df, i, success, count, clicks, checks,
                   outcomes, warning, receipts, images, pdfs, zip>>

MapHeadColumn ==
    /\ pc = "map_head"
    /\ orders_df' = [k \in DOMAIN orders_df |->
                        [orders_df[k] EXCEPT !.head = MapHead(@, model_parts_dict)]]
    /\ Returned("map_head")
    /\ UNCHANGED <<csv, table, model_parts_dict, i, success, count, clicks,
                   checks, outcomes, warning, receipts, images, pdfs, zip>>

ForNext ==
    /\ pc = "for"
    /\ IF i < Len(orders_df)
       THEN /\ i' = i + 1
            /\ pc' = "close_annoying_modal"
       ELSE /\ i' = i
            /\ pc' = "archive_receipts"
    /\ UNCHANGED <<csv, table, orders_df, model_parts_dict, success, count,
                   clicks, checks, outcomes, warning, receipts, images,
                   pdfs, zip, failed, log>>

FillTheForm ==
    /\ pc = "fill_the_form"
    /\ IF orders_df[i].head = NaN
       THEN Raise("fill_the_form", "TypeError")
       ELSE \/ Returned("fill_the_form")
            \/ Raise("fill_the_form", "PageError")
    /\ UNCHANGED <<csv, table, orders_df, model_parts_dict, i, success, count,
                   clicks, checks, outcomes, warning, receipts, images,
                   pdfs, zip>>

PreviewOrder ==
    /\ pc = "preview_order"
    /\ \/ Returned("preview_order")
       \/ Raise("preview_order", "PageError")
    /\ UNCHANGED <<csv, table, orders_df, model_parts_dict, i, success, count,
                   clicks, checks, outcomes, warning, receipts, images,
                   pdfs, zip>>

----------------------------------------------------------------------------
(* submit_until_success and check_order_success *)

SubmitEnter ==
    /\ pc = "submit_until_success"
    /\ success' = FALSE
    /\ count' = 0
    /\ clicks' = 0
    /\ checks' = <<>>
    /\ pc' = "while"
    /\ UNCHANGED <<csv, table, orders_df, model_parts_dict, i, outcomes,
                   warning, receipts, images, pdfs, zip, failed, log>>

SubmitWhile ==
    /\ pc = "while"
    /\ IF WhileCond(success, count)
       THEN /\ count' = count + 1
            /\ pc' = "click_submit"
       ELSE /\ count' = count
            /\ pc' = "submit_return"
    /\ UNCHANGED <<csv, table, orders_df, model_parts_dict, i, success, clicks,
                   checks, outcomes, warning, receipts, images, pdfs, zip,
                   failed, log>>

ClickSubmit ==
    /\ pc = "click_submit"
    /\ \/ /\ clicks' = clicks + 1
          /\ pc' = "check_order_success"
          /\ failed' = failed
       \/ /\ clicks' = clicks
          /\ Raise("submit_until_success", "PageError")
    /\ UNCHANGED <<csv, table, orders_df, model_parts_dict, i, success, count,
                   checks, outcomes, warning, receipts, images, pdfs, zip,
                   log>>

CheckOrderSuccess ==
    /\ pc = "check_order_success"
    /\ \E has_error_message \in BOOLEAN :
          /\ success' = ~has_error_message
          /\ checks' = Append(checks, ~has_error_message)
          /\ warning' = IF has_error_message
                        THEN <<"Failed to submit order, retrying...", "">>
                        ELSE NoWarning
    /\ pc' = "while"
    /\ UNCHANGED <<csv, table, orders_df, model_parts_dict, i, count, clicks,
                   outcomes, receipts, images, pdfs, zip, failed, log>>

SubmitReturn ==
    /\ pc = "submit_return"
    /\ pc' = AfterSubmit(success)
    /\ outcomes' = Append(outcomes, SubmissionState(success, count))
    /\ log' = Append(log, <<"submit_until_success", i>>)
    /\ success' = FALSE
    /\ count' = 0
    /\ clicks' = 0
    /\ checks' = <<>>
    /\ UNCHANGED <<csv, table, orders_df, model_parts_dict, i, warning,
                   receipts, images, pdfs, zip, failed>>

----------------------------------------------------------------------------
(* The artifacts of one order, and the archive *)

StoreReceiptAsPdf ==
    /\ pc = "store_receipt_as_pdf"
    /\ \/ /\ receipts' = Write(receipts, ReceiptPath(orders_df[i].number),
                               RunContent(i))
          /\ Returned("store_receipt_as_pdf")
       \/ /\ receipts' = receipts
          /\ Raise("store_receipt_as_pdf", "PageError")
    /\ UNCHANGED <<csv, table, orders_df, model_parts_dict, i, success, count,
                   clicks, checks, outcomes, warning, images, pdfs, zip>>

ScreenshotRobot ==
    /\ pc = "screenshot_robot"
    /\ \/ /\ images' = Write(images, ScreenshotPath(orders_df[i].number),
                             RunContent(i))
          /\ Returned("screenshot_robot")
       \/ /\ images' = images
          /\ Raise("screenshot_robot", "PageError")
    /\ UNCHANGED <<csv, table, orders_df, model_parts_dict, i, success, count,
                   clicks, checks, outcomes, warning, receipts, pdfs, zip>>

EmbedScreenshotToReceipt ==
    /\ pc = "embed_screenshot_to_receipt"
    /\ LET pdf_file == ReceiptPath(orders_df[i].number)
           screenshot == ScreenshotPath(orders_df[i].number)
       IN  IF pdf_file \in DOMAIN receipts /\ screenshot \in DOMAIN images
           THEN \/ /\ pdfs' = Write(pdfs, MergedPath(orders_df[i].number),
                                    Merged(receipts[pdf_file], images[screenshot]))
                   /\ Returned("embed_screenshot_to_receipt")
                \/ /\ pdfs' = pdfs
                   /\ Raise("embed_screenshot_to_receipt", "PdfError")
           ELSE /\ pdfs' = pdfs
                /\ Raise("embed_screenshot_to_receipt", "FileNotFoundError")
    /\ UNCHANGED <<csv, table, orders_df, model_parts_dict, i, success, count,
                   clicks, checks, outcomes, warning, receipts, images, zip>>

ClickOrderAnother ==
    /\ pc = "click_order_another"
    /\ \/ Returned("click_order_another")
       \/ Raise("click_order_another", "PageError")
    /\ UNCHANGED <<csv, table, orders_df, model_parts_dict, i, success, count,
                   clicks, checks, outcomes, warning, receipts, images,
                   pdfs, zip>>

ArchiveReceipts ==
    /\ pc = "archive_receipts"
    /\ \/ /\ zip' = MakeArchive(pdfs)
          /\ Returned("archive_receipts")
       \/ /\ zip' = zip
          /\ Raise("archive_receipts", "OSError")
    /\ UNCHANGED <<csv, table, orders_df, model_parts_dict, i, success, count,
                   clicks, checks, outcomes, warning, receipts, images, pdfs>>

Next ==
    \/ GetOrders
    \/ OpenRobotOrderWebsite
    \/ GoToPlaceOrderPage
    \/ CloseAnnoyingModal
    \/ GetModelParts
    \/ MapHeadColumn
    \/ ForNext
    \/ FillTheForm
    \/ PreviewOrder
    \/ SubmitEnter
    \/ SubmitWhile
    \/ ClickSubmit
    \/ CheckOrderSuccess
    \/ SubmitReturn
    \/ StoreReceiptAsPdf
    \/ ScreenshotRobot
    \/ EmbedScreenshotToReceipt
    \/ ClickOrderAnother
    \/ ArchiveReceipts

Spec == Init /\ [][Next]_vars

----------------------------------------------------------------------------
(* Vocabulary of the properties *)

Last(s) == s[Len(s)]
Done(step, k) == \E p \in DOMAIN log : log[p] = <<step, k>>
OrderNumbers == {csv[k].number : k \in DOMAIN csv}
ProducedByRun(dir) == {p \in DOMAIN dir : dir[p] \notin {Stale, Merged(Stale, Stale)}}
RowsWritten(step, n) == {k \in DOMAIN csv : Done(step, k) /\ csv[k].number = n}
LastRow(S) == CHOOSE k \in S : \A j \in S : j <= k
Mapped == Done("map_head", 0)

----------------------------------------------------------------------------
(* C1: submit_until_success clicks the submit button at least once and at
   most MAX_SUBMISSION_ATTEMPTS + 1 times; only the last check of a call can
   be a successful one and no click follows it; the call ends SUCCEEDED right
   after the first successful check and EXHAUSTED only after
   MAX_SUBMISSION_ATTEMPTS + 1 failed checks in a row. *)
C1_SubmitBounded ==
    /\ clicks <= MAX_SUBMISSION_ATTEMPTS + 1
    /\ \A p \in DOMAIN checks : checks[p] => p = Len(checks)
    /\ (checks # <<>> /\ Last(checks)) => clicks = Len(checks)
    /\ pc = "submit_return" =>
          /\ clicks >= 1
          /\ Len(checks) = clicks
          /\ success <=> Last(checks)
          /\ ~success =>
                /\ clicks = MAX_SUBMISSION_ATTEMPTS + 1
                /\ \A p \in DOMAIN checks : ~checks[p]
    /\ \A k \in DOMAIN outcomes : outcomes[k] \in {"SUCCEEDED", "EXHAUSTED"}

C1_Witness ==
    /\ pc = "submit_return"
    /\ clicks = MAX_SUBMISSION_ATTEMPTS + 1
    /\ ~success

(* C2: the number of clicks on the submit button for one order never exceeds
   MAX_SUBMISSION_ATTEMPTS. *)
C2_AtMostMaxAttempts == clicks <= MAX_SUBMISSION_ATTEMPTS

(* C3: a submission that ends EXHAUSTED does not abort the run: the call
   returns to the receipt capture of the same row, and every row the loop has
   left behind has its receipt, screenshot, merged document and form reset,
   whatever its submission ended in; a finished run has its archive. *)
C3_ExhaustedStep ==
    (pc = "submit_return" /\ ~success) =>
        /\ pc' = "store_receipt_as_pdf"
        /\ outcomes' = Append(outcomes, "EXHAUSTED")
        /\ i' = i
        /\ failed' = failed

C3_ProcessedRows ==
    /\ \A k \in DOMAIN outcomes :
          (k < i \/ pc \in {"for", "archive_receipts", "done"}) =>
              /\ Done("store_receipt_as_pdf", k)
              /\ Done("screenshot_robot", k)
              /\ Done("embed_screenshot_to_receipt", k)
              /\ Done("click_order_another", k)
              /\ ReceiptPath(csv[k].number) \in DOMAIN receipts
              /\ ScreenshotPath(csv[k].number) \in DOMAIN images
              /\ MergedPath(csv[k].number) \in DOMAIN pdfs
    /\ pc = "done" => (Len(outcomes) = Len(csv) /\ zip # NoFile)

C3_ExhaustedContinues == []C3_ProcessedRows /\ [][C3_ExhaustedStep]_vars

C3_Witness ==
    /\ pc = "done"
    /\ Len(outcomes) = 2
    /\ outcomes[1] = "EXHAUSTED"

(* C4: when the run completes, the number of merged documents of this run in
   the merged-PDF directory equals the number of input rows. *)
C4_OnePerRow ==
    pc = "done" => Cardinality(ProducedByRun(pdfs)) = Len(csv)

(* C4 as amended: when the run completes, the number of merged documents of
   this run in the merged-PDF directory equals the number of distinct order
   numbers among the input rows. *)
C4_OnePerOrderNumber ==
    pc = "done" => Cardinality(ProducedByRun(pdfs)) = Cardinality(OrderNumbers)

C4_Witness ==
    /\ pc = "done"
    /\ Len(csv) = 2
    /\ csv[1].number = csv[2].number

(* C5: after archive_receipts the archive holds exactly the merged documents
   of this run, one entry each and nothing else, each entry named after an
   order number of the run. *)
C5_ArchiveOnlyThisRun ==
    zip # NoFile =>
        /\ Entries(zip) = ProducedByRun(pdfs)
        /\ \A e \in Entries(zip) : e[2] \in OrderNumbers

(* C6: a step that raises (anything but the modal dismissal and the check)
   ends the run: the step is not retried, nothing runs after it, no archive
   is written, and the files of the rows before it stay. *)
C6_AbortState ==
    /\ failed # NoError =>
          /\ pc = "aborted"
          /\ failed[1] \notin {"close_annoying_modal", "check_order_success"}
          /\ zip = NoFile
          /\ ~Done(failed[1], i)
          /\ \A k \in 1..(i - 1) :
                /\ ReceiptPath(csv[k].number) \in ProducedByRun(receipts)
                /\ ScreenshotPath(csv[k].number) \in ProducedByRun(images)
                /\ MergedPath(csv[k].number) \in ProducedByRun(pdfs)
    /\ pc = "aborted" => failed # NoError

C6_AbortStep ==
    /\ failed # NoError => UNCHANGED vars
    /\ failed' # NoError => UNCHANGED <<receipts, images, pdfs, zip, log, i>>

C6_FailureAborts == []C6_AbortState /\ [][C6_AbortStep]_vars

C6_Witness ==
    /\ pc = "aborted"
    /\ failed = <<"screenshot_robot", "PageError">>
    /\ i = 2

(* C7: close_annoying_modal always returns: present or absent modal, failed
   or successful click, the next statement runs (the catalog scrape after the
   first call, the form filling inside the loop) and an exception is only
   logged as a warning; it runs once after navigation and once before every
   form filling. *)
C7_ModalStep ==
    pc = "close_annoying_modal" =>
        /\ pc' = IF i = 0 THEN "get_model_parts" ELSE "fill_the_form"
        /\ failed' = NoError
        /\ Done("close_annoying_modal", i)'
        /\ warning' \in {NoWarning, <<"Modal did not appear", "absent">>,
                         <<"Modal did not appear", "click_failed">>}

C7_ModalCalls ==
    /\ \A p \in DOMAIN log :
          /\ log[p][1] = "go_to_place_order_page" =>
                (p < Len(log) => log[p + 1] = <<"close_annoying_modal", 0>>)
          /\ log[p][1] = "fill_the_form" =>
                (p > 1 /\ log[p - 1] = <<"close_annoying_modal", log[p][2]>>)
          /\ log[p][1] = "close_annoying_modal" =>
                \A q \in 1..(p - 1) : log[q] # log[p]
    /\ pc = "done" =>
          Cardinality({p \in DOMAIN log : log[p][1] = "close_annoying_modal"})
              = Len(csv) + 1

C7_ModalNeverAborts == []C7_ModalCalls /\ [][C7_ModalStep]_vars

C7_Witness ==
    /\ pc = "fill_the_form"
    /\ warning = <<"Modal did not appear", "click_failed">>

(* C8: once the Head column is mapped, every row holds the model name of its
   head code, or the missing value when the catalog has no such code; and the
   run never stops on a missing head value. *)
C8_HeadsReplaced ==
    Mapped => \A k \in DOMAIN csv :
        /\ orders_df[k].number = csv[k].number
        /\ csv[k].head \in DOMAIN model_parts_dict =>
              orders_df[k].head = model_parts_dict[csv[k].head]
        /\ csv[k].head \notin DOMAIN model_parts_dict =>
              orders_df[k].head = NaN

C8_MissingHeadProcessed ==
    /\ C8_HeadsReplaced
    /\ failed # <<"fill_the_form", "TypeError">>

(* C8 as amended: once the Head column is mapped, every row holds the model
   name of its head code, or the missing value when the catalog has no such
   code; such a row is neither flagged nor skipped: it reaches fill_the_form,
   which raises on the missing value, so that the row is not filled, no row
   after it is started and the run ends there. *)
C8_MissingHeadAborts ==
    /\ C8_HeadsReplaced
    /\ \A k \in 1..i :
          (Mapped /\ orders_df[k].head = NaN) =>
              /\ k = i
              /\ pc \in {"close_annoying_modal", "fill_the_form", "aborted"}
              /\ ~Done("fill_the_form", k)
              /\ pc = "aborted" => failed = <<"fill_the_form", "TypeError">>
    /\ pc = "done" => \A k \in DOMAIN orders_df : orders_df[k].head # NaN
    /\ failed = <<"fill_the_form", "TypeError">> => orders_df[i].head = NaN

C8_Witness ==
    /\ pc = "aborted"
    /\ failed = <<"fill_the_form", "TypeError">>
    /\ i = 1
    /\ Len(orders_df) = 2

(* C9: the steps run in the written order: the six opening steps, then per
   row modal, fill, preview, submit, receipt, screenshot, merge, reset, row
   after row, then the archive, once; a merged document always combines the
   receipt and the screenshot written for the same row. *)
C9_Opening ==
    <<"get_orders", "open_robot_order_website", "go_to_place_order_page",
      "close_annoying_modal", "get_model_parts", "map_head">>

C9_PerRow ==
    <<"close_annoying_modal", "fill_the_form", "preview_order",
      "submit_until_success", "store_receipt_as_pdf", "screenshot_robot",
      "embed_screenshot_to_receipt", "click_order_another">>

C9_Expected(p) ==
    IF p <= Len(C9_Opening) THEN <<C9_Opening[p], 0>>
    ELSE LET q == p - Len(C9_Opening) - 1
             k == (q \div Len(C9_PerRow)) + 1
         IN  IF k <= Len(csv) THEN <<C9_PerRow[(q % Len(C9_PerRow)) + 1], k>>
             ELSE <<"archive_receipts", Len(csv)>>

C9_FullLength == Len(C9_Opening) + Len(C9_PerRow) * Len(csv) + 1

C9_FixedOrder ==
    /\ Len(log) <= C9_FullLength
    /\ \A p \in DOMAIN log : log[p] = C9_Expected(p)
    /\ pc = "done" <=> Len(log) = C9_FullLength
    /\ zip # NoFile <=> pc = "done"
    /\ \A k \in DOMAIN csv : Done("embed_screenshot_to_receipt", k) =>
          \E j \in k..Len(csv) :
              /\ csv[j].number = csv[k].number
              /\ pdfs[MergedPath(csv[k].number)] = Merged(RunContent(j), RunContent(j))

C9_Witness ==
    /\ pc = "done"
    /\ Len(csv) = 2

(* C10: the three files of a row are named by its order number alone, and a
   write replaces what the name held: for each order number written by the
   run there is one receipt, one screenshot and one merged document, each
   with the content of the last row written under that number, also when an
   earlier run left a file of that name. *)
C10_Dir(dir, step, Path(_), Content(_)) ==
    /\ \A n \in (1..MaxRows) \cup (1..MaxStale) :
          IF RowsWritten(step, n) = {}
          THEN Path(n) \in DOMAIN dir => dir[Path(n)] = Content(0)
          ELSE /\ Path(n) \in DOMAIN dir
               /\ dir[Path(n)] = Content(LastRow(RowsWritten(step, n)))
    /\ Cardinality(ProducedByRun(dir))
          = Cardinality({csv[k].number : k \in {j \in DOMAIN csv : Done(step, j)}})

C10_ReceiptContent(k) == IF k = 0 THEN Stale ELSE RunContent(k)

C10_MergedContent(k) ==
    IF k = 0 THEN Merged(Stale, Stale) ELSE Merged(RunContent(k), RunContent(k))

C10_LastWriteWins ==
    /\ C10_Dir(receipts, "store_receipt_as_pdf", ReceiptPath, C10_ReceiptContent)
    /\ C10_Dir(images, "screenshot_robot", ScreenshotPath, C10_ReceiptContent)
    /\ C10_Dir(pdfs, "embed_screenshot_to_receipt", MergedPath, C10_MergedContent)

C10_Witness ==
    /\ pc = "done"
    /\ Len(csv) = 2
    /\ csv[1].number = csv[2].number
    /\ MergedPath(csv[1].number) \in DOMAIN pdfs
    /\ pdfs[MergedPath(csv[1].number)] = Merged(RunContent(2), RunContent(2))
    /\ Cardinality(DOMAIN pdfs) = 1

====
